---- MODULE Spec2Model ----
(***************************************************************************)
(* Model of src-tauri/src/utils/tts/voice_gender_detector.py: the          *)
(* detect_gender pipeline (preprocessing with fallback, input checks,      *)
(* chunking, per-chunk analysis, aggregation, scoring, reporting) together *)
(* with the scratch resources it holds and the two output streams.         *)
(*                                                                         *)
(* Numbers.  Samples are the 16-bit PCM integers wavfile.read returns; the *)
(* normalised waveform x / max_amp is kept as the numerators x and the     *)
(* denominator max_amp.  Feature values are held in fixed units: F0 in     *)
(* quarters of a Hz (Hz(h)), zero-crossing rate in thousandths, spectral   *)
(* centroid and rolloff in whole units; the score is held in halves.       *)
(* np.mean's floating-point sum and division round to MantBits significant *)
(* bits, ties to even (53 bits in the build), the finest quantum being one *)
(* unit.                                                                   *)
(***************************************************************************)
EXTENDS Integers, Sequences, FiniteSets, TLC

VARIABLES pc, vocals_wav, temp_wav, temp_dir, isolation, convert_calls,
          conversion, wav_path, Fs, x, max_amp, chunks, analysis,
          chunk_results, agg, gender_score, stdout, stderr, exit_code, exc

vars == <<pc, vocals_wav, temp_wav, temp_dir, isolation, convert_calls,
          conversion, wav_path, Fs, x, max_amp, chunks, analysis,
          chunk_results, agg, gender_score, stdout, stderr, exit_code, exc>>

(***************************************************************************)
(* Bounds of the model.                                                    *)
(***************************************************************************)
\* longest waveform, in samples, the pipeline specification loads
MaxSamples == 4
\* largest sample rate the pipeline specification loads (44100 in the build)
MaxFs == 1
\* significand width of the floating-point sums (53 in the build)
MantBits == 12
\* longest waveform and largest sample rate of the chunker specification
MaxChunkSamples == 16
MaxChunkFs == 4
\* most per-chunk records of the aggregator specification
MaxResults == 3

(***************************************************************************)
(* Generic helpers.                                                        *)
(***************************************************************************)
Abs(v) == IF v < 0 THEN -v ELSE v

\* all sequences over S of length 0..n
SeqsUpTo(S, n) == UNION {[1..k -> S] : k \in 0..n}

RECURSIVE SumSeq(_)
SumSeq(s) == IF s = <<>> THEN 0 ELSE s[1] + SumSeq(Tail(s))

RECURSIVE MaxAbs(_)
MaxAbs(s) ==
    IF s = <<>> THEN 0
    ELSE LET m == MaxAbs(Tail(s)) IN IF Abs(s[1]) > m THEN Abs(s[1]) ELSE m

RECURSIVE Insert(_, _)
Insert(v, s) ==
    IF s = <<>> THEN <<v>>
    ELSE IF v <= s[1] THEN <<v>> \o s
    ELSE <<s[1]>> \o Insert(v, Tail(s))

RECURSIVE SortedSeq(_)
SortedSeq(s) == IF s = <<>> THEN <<>> ELSE Insert(s[1], SortedSeq(Tail(s)))

\* the permutations of the sequence s
PermsOf(s) ==
    {[i \in 1..Len(s) |-> s[p[i]]] : p \in Permutations(1..Len(s))}

(***************************************************************************)
(* Units.                                                                  *)
(***************************************************************************)
\* h Hz in the model's F0 unit (a quarter of a Hz)
Hz(h) == 4 * h

(***************************************************************************)
(* Floating-point arithmetic of np.mean / np.median on non-negative        *)
(* values.                                                                 *)
(***************************************************************************)
\* (These are functions, not operators: an argument is a value, evaluated
\* once, however often the body reads it.)

\* the number of bits of v: the least e with v < 2^e
BitLen[v \in Nat] == CHOOSE e \in 0..30 : v < 2 ^ e /\ (e = 0 \/ 2 ^ (e - 1) <= v)

\* spacing of the representable values around v
Quantum[v \in Nat] ==
    IF BitLen[v] <= MantBits THEN 1 ELSE 2 ^ (BitLen[v] - MantBits)

\* a / b rounded to the nearest integer, ties to even
RoundDiv[a \in Nat, b \in Nat] ==
    LET f == a \div b
        r == a % b
    IN  IF 2 * r < b THEN f
        ELSE IF 2 * r > b THEN f + 1
        ELSE f + (f % 2)

\* v rounded to a representable value
FRound[v \in Nat] == RoundDiv[v, Quantum[v]] * Quantum[v]

\* total / n rounded to a representable value
FDiv[total \in Nat, n \in Nat] ==
    LET q == Quantum[total \div n] IN RoundDiv[total, n * q] * q

\* the running sum res += a[i] of np.add.reduce
FSum(s) ==
    LET res[k \in 0..Len(s)] == IF k = 0 THEN 0 ELSE FRound[res[k - 1] + s[k]]
    IN  res[Len(s)]

\* np.mean of a non-empty sequence
Mean(s) == FDiv[FSum(s), Len(s)]

\* Median without the sort: the middle of the values as they come
MedianMut(s) ==
    LET n == Len(s)
    IN  IF n % 2 = 1 THEN s[(n + 1) \div 2]
        ELSE Mean(<<s[n \div 2], s[n \div 2 + 1]>>)

\* np.median of a non-empty sequence: the middle of the sorted values, or
\* the mean of the two middle ones
Median(s) ==
    LET t == SortedSeq(s)
        n == Len(s)
    IN  IF n % 2 = 1 THEN t[(n + 1) \div 2]
        ELSE Mean(<<t[n \div 2], t[n \div 2 + 1]>>)

(***************************************************************************)
(* The pure computations of the pipeline.                                  *)
(***************************************************************************)
\* np.all(np.abs(x) < 1e-6) for the samples s / d
AllSilent(s, d) == \A i \in 1..Len(s) : Abs(s[i]) * 1000000 < d

\* Python's range(start, stop, step) for step > 0, as a sequence
PyRange(start, stop, step) ==
    IF stop <= start THEN <<>>
    ELSE [k \in 1..((stop - start - 1) \div step + 1) |-> start + (k - 1) * step]

\* Python's s[i:j] for 0 <= i
Slice(s, i, j) == SubSeq(s, i + 1, IF j < Len(s) THEN j ELSE Len(s))

\* the loop of lines 161-164: the slices at the given starts that are complete
RECURSIVE CompleteChunks(_, _, _)
CompleteChunks(starts, s, chunk_size) ==
    IF starts = <<>> THEN <<>>
    ELSE LET chunk == Slice(s, starts[1], starts[1] + chunk_size)
             rest  == CompleteChunks(Tail(starts), s, chunk_size)
         IN  IF Len(chunk) = chunk_size THEN <<chunk>> \o rest ELSE rest

\* Chunker with the range stopping one start early (the + 1 of line 161 lost)
ChunkerMut(s, rate) ==
    LET chunk_size == 3 * rate
        hop_size   == 1 * rate
        found == CompleteChunks(PyRange(0, Len(s) - chunk_size, hop_size),
                                s, chunk_size)
    IN  IF found = <<>> /\ Len(s) > 0 THEN <<s>> ELSE found

\* lines 157-169: 3-second chunks every second, or the entire file
Chunker(s, rate) ==
    LET chunk_size == 3 * rate
        hop_size   == 1 * rate
        found == CompleteChunks(PyRange(0, Len(s) - chunk_size + 1, hop_size),
                                s, chunk_size)
    IN  IF found = <<>> /\ Len(s) > 0 THEN <<s>> ELSE found

\* a frame of the extractor's matrix F: rows 0, 2, 3 and 4 of one column
Frame(f0, zcr, centroid, rolloff) ==
    [f0 |-> f0, zcr |-> zcr, centroid |-> centroid, rolloff |-> rolloff]

\* f0_values[(f0_values > 50) & (f0_values < 300)]
RECURSIVE ValidF0(_)
ValidF0(F) ==
    IF F = <<>> THEN <<>>
    ELSE IF F[1].f0 > Hz(50) /\ F[1].f0 < Hz(300)
         THEN <<F[1].f0>> \o ValidF0(Tail(F))
         ELSE ValidF0(Tail(F))

NoFeatures ==
    [median_f0 |-> 0, spectral_centroid |-> 0, spectral_rolloff |-> 0, zcr |-> 0]

\* what the extractor did for a chunk: raised, or returned the frames F;
\* NotCalled for a chunk rejected before the extractor is invoked
NotCalled == [raises |-> FALSE, F |-> <<>>]

\* analyze_audio_chunk without its try/except: the extractor's exception
\* leaves the function
AnalyzeAudioChunkMut(chunk, d, o) ==
    IF AllSilent(chunk, d)
    THEN [why |-> "silent", features |-> NoFeatures, escapes |-> FALSE]
    ELSE IF o.raises
    THEN [why |-> "raised", features |-> NoFeatures, escapes |-> TRUE]
    ELSE IF Len(o.F) = 0
    THEN [why |-> "no_frames", features |-> NoFeatures, escapes |-> FALSE]
    ELSE IF Len(ValidF0(o.F)) = 0
    THEN [why |-> "no_f0", features |-> NoFeatures, escapes |-> FALSE]
    ELSE [why |-> "ok",
          features |->
            [median_f0         |-> Median(ValidF0(o.F)),
             spectral_centroid |-> Mean([k \in 1..Len(o.F) |-> o.F[k].centroid]),
             spectral_rolloff  |-> Mean([k \in 1..Len(o.F) |-> o.F[k].rolloff]),
             zcr               |-> Mean([k \in 1..Len(o.F) |-> o.F[k].zcr])],
          escapes |-> FALSE]

\* analyze_audio_chunk(chunk / d, Fs) with the extractor's outcome o: why the
\* chunk is or is not usable, its features, and whether an exception leaves
\* the function (the handler of lines 110-112 returns None instead)
AnalyzeAudioChunk(chunk, d, o) ==
    IF AllSilent(chunk, d)
    THEN [why |-> "silent", features |-> NoFeatures, escapes |-> FALSE]
    ELSE IF o.raises
    THEN [why |-> "raised", features |-> NoFeatures, escapes |-> FALSE]
    ELSE IF Len(o.F) = 0
    THEN [why |-> "no_frames", features |-> NoFeatures, escapes |-> FALSE]
    ELSE IF Len(ValidF0(o.F)) = 0
    THEN [why |-> "no_f0", features |-> NoFeatures, escapes |-> FALSE]
    ELSE [why |-> "ok",
          features |->
            [median_f0         |-> Median(ValidF0(o.F)),
             spectral_centroid |-> Mean([k \in 1..Len(o.F) |-> o.F[k].centroid]),
             spectral_rolloff  |-> Mean([k \in 1..Len(o.F) |-> o.F[k].rolloff]),
             zcr               |-> Mean([k \in 1..Len(o.F) |-> o.F[k].zcr])],
          escapes |-> FALSE]

\* lines 187-190: the summary of the per-chunk records
Aggregator(results) ==
    [median_f0 |->
        Median([k \in 1..Len(results) |-> results[k].median_f0]),
     spectral_centroid |->
        Mean([k \in 1..Len(results) |-> results[k].spectral_centroid]),
     spectral_rolloff |->
        Mean([k \in 1..Len(results) |-> results[k].spectral_rolloff]),
     zcr |->
        Mean([k \in 1..Len(results) |-> results[k].zcr])]

\* Score with the female band weighing half a point instead of one
ScoreMut(a) ==
    LET s0 == 0
        s1 == IF Hz(85) <= a.median_f0 /\ a.median_f0 <= Hz(155) THEN s0 + 4
              ELSE IF Hz(155) < a.median_f0 /\ a.median_f0 <= Hz(170) THEN s0 + 2
              ELSE IF Hz(170) < a.median_f0 /\ a.median_f0 <= Hz(255) THEN s0 - 1
              ELSE s0
        s2 == IF a.spectral_centroid < 1600 THEN s1 + 1 ELSE s1
        s3 == IF a.zcr < 100 THEN s2 + 1 ELSE s2
    IN  s3

\* lines 193-208: the score, in halves (4 is 2.0, 2 is 1.0, 1 is 0.5); the
\* zero-crossing rate 0.1 is 100 thousandths
Score(a) ==
    LET s0 == 0
        s1 == IF Hz(85) <= a.median_f0 /\ a.median_f0 <= Hz(155) THEN s0 + 4
              ELSE IF Hz(155) < a.median_f0 /\ a.median_f0 <= Hz(170) THEN s0 + 2
              ELSE IF Hz(170) < a.median_f0 /\ a.median_f0 <= Hz(255) THEN s0 - 2
              ELSE s0
        s2 == IF a.spectral_centroid < 1600 THEN s1 + 1 ELSE s1
        s3 == IF a.zcr < 100 THEN s2 + 1 ELSE s2
    IN  s3

\* Label with >= for >
LabelMut(score) == IF score >= 0 THEN "male" ELSE "female"

\* lines 220-222: the line written to standard output
Label(score) == IF score > 0 THEN "male" ELSE "female"

\* a handler that catches RuntimeError only
IsolationCaughtMut(r) == r \in {"demucs_failed", "no_vocals", "ffmpeg_failed"}

\* which failures of extract_vocals the handler of line 128 catches
IsolationCaught(r) == r \in {"demucs_failed", "no_vocals", "ffmpeg_failed", "not_found"}

(***************************************************************************)
(* Inputs of the collaborators.                                            *)
(***************************************************************************)
\* PCM samples: zero, a positive one, a negative one of larger magnitude
SampleVals == {-2, 0, 1}

Waves == SeqsUpTo(SampleVals, MaxSamples)

\* how extract_vocals ends: it returns, demucs exits non-zero, vocals.mp3 is
\* missing, ffmpeg exits non-zero, or a program is not found
IsolationOutcomes == {"ok", "demucs_failed", "no_vocals", "ffmpeg_failed", "not_found"}

\* how convert_to_wav ends
ConversionOutcomes == {"ok", "ffmpeg_failed", "not_found"}

\* what wavfile.read does: it raises, or returns a sample rate and the samples
LoadOutcomes ==
    {[ok |-> FALSE, Fs |-> 0, x |-> <<>>]}
    \cup {[ok |-> TRUE, Fs |-> f, x |-> w] : f \in 1..MaxFs, w \in Waves}

\* frames of the extractor: F0 on the two limits of the filter (Lo, Hi) and
\* inside them (a low voice, a high voice)
FrameLo   == Frame(Hz(50), 150, 2000, 5000)
FrameHi   == Frame(Hz(300), 150, 2000, 5000)
FrameLowVoice  == Frame(Hz(120), 50, 1000, 3000)
FrameHighVoice == Frame(Hz(200), 150, 2000, 5000)

\* the matrices F the extractor returns: no frame, no usable F0, one voice,
\* two voices, a voice beside a frame whose F0 is filtered out
FrameMatrices ==
    {<<>>, <<FrameLo>>, <<FrameHi>>, <<FrameLowVoice>>, <<FrameHighVoice>>,
     <<FrameLowVoice, FrameHighVoice>>, <<FrameHi, FrameLowVoice>>}

ExtractorOutcomes ==
    {[raises |-> TRUE, F |-> <<>>]}
    \cup {[raises |-> FALSE, F |-> m] : m \in FrameMatrices}

\* the `error: <message>` line of line 225
ErrorLine(m) == <<"error: ", m>>

(***************************************************************************)
(* The pipeline: detect_gender, one action per step.                       *)
(***************************************************************************)
Init ==
    /\ pc = "start"
    /\ vocals_wav = FALSE /\ temp_wav = FALSE /\ temp_dir = FALSE
    /\ isolation = "none" /\ convert_calls = 0 /\ conversion = "none"
    /\ wav_path = "none"
    /\ Fs = 0 /\ x = <<>> /\ max_amp = 0
    /\ chunks = <<>> /\ analysis = <<>> /\ chunk_results = <<>>
    /\ agg = NoFeatures /\ gender_score = 0
    /\ stdout = <<>> /\ stderr = <<>> /\ exit_code = -1 /\ exc = "none"

\* lines 119-120: the two temporary WAV files are created
Start ==
    /\ pc = "start"
    /\ vocals_wav' = TRUE /\ temp_wav' = TRUE
    /\ pc' = "extract"
    /\ UNCHANGED <<temp_dir, isolation, convert_calls, conversion, wav_path,
                   Fs, x, max_amp, chunks, analysis, chunk_results, agg,
                   gender_score, stdout, stderr, exit_code, exc>>

\* lines 125, 17: extract_vocals is entered and creates its directory
ExtractVocalsEnter ==
    /\ pc = "extract"
    /\ temp_dir' = TRUE
    /\ pc' = "demucs"
    /\ UNCHANGED <<vocals_wav, temp_wav, isolation, convert_calls, conversion,
                   wav_path, Fs, x, max_amp, chunks, analysis, chunk_results,
                   agg, gender_score, stdout, stderr, exit_code, exc>>

\* lines 18-51, 126-129: extract_vocals runs and leaves its `with`; on
\* success the vocals file is the one to load, on a caught failure the
\* fallback is next
ExtractVocalsRun ==
    /\ pc = "demucs"
    /\ \E r \in IsolationOutcomes :
        /\ isolation' = IF r = "ok" THEN "ok" ELSE "failed"
        /\ temp_dir' = FALSE
        /\ IF r = "ok"
           THEN wav_path' = "vocals_wav" /\ pc' = "load" /\ exc' = exc
           ELSE IF IsolationCaught(r)
           THEN wav_path' = wav_path /\ pc' = "convert" /\ exc' = exc
           ELSE wav_path' = wav_path /\ pc' = "unwind" /\ exc' = r
    /\ UNCHANGED <<vocals_wav, temp_wav, convert_calls, conversion, Fs, x,
                   max_amp, chunks, analysis, chunk_results, agg,
                   gender_score, stdout, stderr, exit_code>>

\* lines 131-132, 53-70: convert_to_wav on the original file
ConvertToWav ==
    /\ pc = "convert"
    /\ \E r \in ConversionOutcomes :
        /\ convert_calls' = convert_calls + 1
        /\ conversion' = r
        /\ IF r = "ok"
           THEN wav_path' = "temp_wav" /\ pc' = "load" /\ exc' = exc
           ELSE /\ wav_path' = wav_path /\ pc' = "unwind"
                /\ exc' = IF r = "ffmpeg_failed" THEN "FFmpeg conversion failed"
                          ELSE "ffmpeg not found"
    /\ UNCHANGED <<vocals_wav, temp_wav, temp_dir, isolation, Fs, x, max_amp,
                   chunks, analysis, chunk_results, agg, gender_score, stdout,
                   stderr, exit_code>>

\* lines 136-137: wavfile.read(wav_path)
Load ==
    /\ pc = "load"
    /\ \E r \in LoadOutcomes :
        IF r.ok
        THEN Fs' = r.Fs /\ x' = r.x /\ pc' = "check_empty" /\ exc' = exc
        ELSE Fs' = Fs /\ x' = x /\ pc' = "unwind" /\ exc' = "wav read failed"
    /\ UNCHANGED <<vocals_wav, temp_wav, temp_dir, isolation, convert_calls,
                   conversion, wav_path, max_amp, chunks, analysis,
                   chunk_results, agg, gender_score, stdout, stderr, exit_code>>

\* CheckEmpty without the check of line 142
CheckEmptyMut ==
    /\ pc = "check_empty"
    /\ pc' = "check_silence"
    /\ UNCHANGED <<vocals_wav, temp_wav, temp_dir, isolation, convert_calls,
                   conversion, wav_path, Fs, x, max_amp, chunks, analysis,
                   chunk_results, agg, gender_score, stdout, stderr,
                   exit_code, exc>>

\* lines 142-143
CheckEmpty ==
    /\ pc = "check_empty"
    /\ IF Len(x) = 0
       THEN pc' = "unwind" /\ exc' = "Audio file is empty"
       ELSE pc' = "check_silence" /\ exc' = exc
    /\ UNCHANGED <<vocals_wav, temp_wav, temp_dir, isolation, convert_calls,
                   conversion, wav_path, Fs, x, max_amp, chunks, analysis,
                   chunk_results, agg, gender_score, stdout, stderr, exit_code>>

\* CheckSilence without the check of line 145
CheckSilenceMut ==
    /\ pc = "check_silence"
    /\ pc' = "normalize"
    /\ UNCHANGED <<vocals_wav, temp_wav, temp_dir, isolation, convert_calls,
                   conversion, wav_path, Fs, x, max_amp, chunks, analysis,
                   chunk_results, agg, gender_score, stdout, stderr,
                   exit_code, exc>>

\* lines 145-146
CheckSilence ==
    /\ pc = "check_silence"
    /\ IF AllSilent(x, 1)
       THEN pc' = "unwind" /\ exc' = "Audio file contains only silence"
       ELSE pc' = "normalize" /\ exc' = exc
    /\ UNCHANGED <<vocals_wav, temp_wav, temp_dir, isolation, convert_calls,
                   conversion, wav_path, Fs, x, max_amp, chunks, analysis,
                   chunk_results, agg, gender_score, stdout, stderr, exit_code>>

\* lines 149-153: x = x / max_amp, kept as x over max_amp
Normalize ==
    /\ pc = "normalize"
    /\ IF MaxAbs(x) > 0
       THEN max_amp' = MaxAbs(x) /\ pc' = "chunk" /\ exc' = exc
       ELSE max_amp' = max_amp /\ pc' = "unwind"
            /\ exc' = "Audio file has zero amplitude"
    /\ UNCHANGED <<vocals_wav, temp_wav, temp_dir, isolation, convert_calls,
                   conversion, wav_path, Fs, x, chunks, analysis,
                   chunk_results, agg, gender_score, stdout, stderr, exit_code>>

\* lines 157-169
Chunk ==
    /\ pc = "chunk"
    /\ chunks' = Chunker(x, Fs)
    /\ pc' = "analyze"
    /\ UNCHANGED <<vocals_wav, temp_wav, temp_dir, isolation, convert_calls,
                   conversion, wav_path, Fs, x, max_amp, analysis,
                   chunk_results, agg, gender_score, stdout, stderr,
                   exit_code, exc>>

\* lines 176-180: one iteration of the loop over the chunks; analysis keeps,
\* per chunk, why it was or was not usable and what the extractor did
AnalyzeChunk ==
    /\ pc = "analyze"
    /\ Len(analysis) < Len(chunks)
    /\ LET chunk == chunks[Len(analysis) + 1] IN
       \E o \in (IF AllSilent(chunk, max_amp) THEN {NotCalled}
                 ELSE ExtractorOutcomes) :
        LET r == AnalyzeAudioChunk(chunk, max_amp, o) IN
        /\ analysis' = Append(analysis,
              [why |-> r.why, raised |-> o.raises, frames |-> Len(o.F),
               voiced |-> Cardinality({k \in 1..Len(o.F) :
                             o.F[k].f0 > Hz(50) /\ o.F[k].f0 < Hz(300)})])
        /\ IF r.escapes
           THEN /\ pc' = "unwind" /\ exc' = "feature extraction failed"
                /\ chunk_results' = chunk_results
           ELSE /\ pc' = pc /\ exc' = exc
                /\ chunk_results' = IF r.why = "ok"
                                    THEN Append(chunk_results, r.features)
                                    ELSE chunk_results
    /\ UNCHANGED <<vocals_wav, temp_wav, temp_dir, isolation, convert_calls,
                   conversion, wav_path, Fs, x, max_amp, chunks, agg,
                   gender_score, stdout, stderr, exit_code>>

\* lines 182-183, after the loop
CheckResults ==
    /\ pc = "analyze"
    /\ Len(analysis) = Len(chunks)
    /\ IF chunk_results = <<>>
       THEN pc' = "unwind" /\ exc' = "Could not analyze any audio chunks"
       ELSE pc' = "aggregate" /\ exc' = exc
    /\ UNCHANGED <<vocals_wav, temp_wav, temp_dir, isolation, convert_calls,
                   conversion, wav_path, Fs, x, max_amp, chunks, analysis,
                   chunk_results, agg, gender_score, stdout, stderr, exit_code>>

\* lines 187-190
Aggregate ==
    /\ pc = "aggregate"
    /\ agg' = Aggregator(chunk_results)
    /\ pc' = "score"
    /\ UNCHANGED <<vocals_wav, temp_wav, temp_dir, isolation, convert_calls,
                   conversion, wav_path, Fs, x, max_amp, chunks, analysis,
                   chunk_results, gender_score, stdout, stderr, exit_code, exc>>

\* lines 193-208
ScoreFeatures ==
    /\ pc = "score"
    /\ gender_score' = Score(agg)
    /\ pc' = "print"
    /\ UNCHANGED <<vocals_wav, temp_wav, temp_dir, isolation, convert_calls,
                   conversion, wav_path, Fs, x, max_amp, chunks, analysis,
                   chunk_results, agg, stdout, stderr, exit_code, exc>>

\* lines 220-222: the label is printed, inside the `with` of line 119
PrintLabel ==
    /\ pc = "print"
    /\ stdout' = Append(stdout, Label(gender_score))
    /\ pc' = "leave"
    /\ UNCHANGED <<vocals_wav, temp_wav, temp_dir, isolation, convert_calls,
                   conversion, wav_path, Fs, x, max_amp, chunks, analysis,
                   chunk_results, agg, gender_score, stderr, exit_code, exc>>

\* the `with` of lines 119-120 is left normally: both files are closed and
\* deleted, detect_gender returns and the script ends
LeaveWith ==
    /\ pc = "leave"
    /\ vocals_wav' = FALSE /\ temp_wav' = FALSE
    /\ exit_code' = 0
    /\ pc' = "done"
    /\ UNCHANGED <<temp_dir, isolation, convert_calls, conversion, wav_path,
                   Fs, x, max_amp, chunks, analysis, chunk_results, agg,
                   gender_score, stdout, stderr, exc>>

\* Unwind with files that are not deleted on close (delete=False)
UnwindMut ==
    /\ pc = "unwind"
    /\ pc' = "except"
    /\ UNCHANGED <<vocals_wav, temp_wav, temp_dir, isolation, convert_calls,
                   conversion, wav_path, Fs, x, max_amp, chunks, analysis,
                   chunk_results, agg, gender_score, stdout, stderr,
                   exit_code, exc>>

\* an exception leaves the `with` of lines 119-120: both files are closed
\* and deleted before the handler of line 224 runs
Unwind ==
    /\ pc = "unwind"
    /\ vocals_wav' = FALSE /\ temp_wav' = FALSE
    /\ pc' = "except"
    /\ UNCHANGED <<temp_dir, isolation, convert_calls, conversion, wav_path,
                   Fs, x, max_amp, chunks, analysis, chunk_results, agg,
                   gender_score, stdout, stderr, exit_code, exc>>

\* Except without sys.exit(1): the function returns and the script ends
ExceptMut ==
    /\ pc = "except"
    /\ stderr' = Append(stderr, ErrorLine(exc))
    /\ exit_code' = 0
    /\ pc' = "exited"
    /\ UNCHANGED <<vocals_wav, temp_wav, temp_dir, isolation, convert_calls,
                   conversion, wav_path, Fs, x, max_amp, chunks, analysis,
                   chunk_results, agg, gender_score, stdout, exc>>

\* lines 224-226
Except ==
    /\ pc = "except"
    /\ stderr' = Append(stderr, ErrorLine(exc))
    /\ exit_code' = 1
    /\ pc' = "exited"
    /\ UNCHANGED <<vocals_wav, temp_wav, temp_dir, isolation, convert_calls,
                   conversion, wav_path, Fs, x, max_amp, chunks, analysis,
                   chunk_results, agg, gender_score, stdout, exc>>

Next ==
    \/ Start \/ ExtractVocalsEnter \/ ExtractVocalsRun \/ ConvertToWav
    \/ Load \/ CheckEmpty \/ CheckSilence \/ Normalize \/ Chunk
    \/ AnalyzeChunk \/ CheckResults \/ Aggregate \/ ScoreFeatures
    \/ PrintLabel \/ LeaveWith \/ Unwind \/ Except

Spec == Init /\ [][Next]_vars

(***************************************************************************)
(* The chunker on its own: a loaded, normalised waveform of n distinct     *)
(* samples at every sample rate, then lines 157-169.                       *)
(***************************************************************************)
InitChunk ==
    /\ pc = "chunk"
    /\ vocals_wav = TRUE /\ temp_wav = TRUE /\ temp_dir = FALSE
    /\ isolation = "ok" /\ convert_calls = 0 /\ conversion = "none"
    /\ wav_path = "vocals_wav"
    /\ Fs \in 1..MaxChunkFs
    /\ \E n \in 1..MaxChunkSamples : x = [i \in 1..n |-> i] /\ max_amp = n
    /\ chunks = <<>> /\ analysis = <<>> /\ chunk_results = <<>>
    /\ agg = NoFeatures /\ gender_score = 0
    /\ stdout = <<>> /\ stderr = <<>> /\ exit_code = -1 /\ exc = "none"

NextChunk == Chunk

SpecChunk == InitChunk /\ [][NextChunk]_vars

(***************************************************************************)
(* The scorer on its own: every summary of a grid that holds the band      *)
(* limits, their neighbours a quarter of a Hz away and the two secondary   *)
(* thresholds, then lines 193-222.                                         *)
(***************************************************************************)
F0Inputs ==
    {Hz(h) : h \in {0, 84, 85, 120, 155, 156, 160, 170, 171, 200, 255, 256, 300}}
    \cup {Hz(85) - 1, Hz(155) + 1, Hz(170) + 1, Hz(255) + 1}

ScoreInputs ==
    [median_f0 : F0Inputs, spectral_centroid : {1000, 1500, 1599, 1600, 2000},
     spectral_rolloff : {3000}, zcr : {50, 99, 100, 150, 200}]

InitScore ==
    /\ pc = "score"
    /\ vocals_wav = TRUE /\ temp_wav = TRUE /\ temp_dir = FALSE
    /\ isolation = "ok" /\ convert_calls = 0 /\ conversion = "none"
    /\ wav_path = "vocals_wav"
    /\ Fs = 1 /\ x = <<1>> /\ max_amp = 1
    /\ chunks = <<>> /\ analysis = <<>> /\ chunk_results = <<>>
    /\ agg \in ScoreInputs /\ gender_score = 0
    /\ stdout = <<>> /\ stderr = <<>> /\ exit_code = -1 /\ exc = "none"

NextScore == ScoreFeatures \/ PrintLabel

SpecScore == InitScore /\ [][NextScore]_vars

(***************************************************************************)
(* The aggregator on its own: every sequence of up to MaxResults per-chunk *)
(* records, then lines 187-222.  The centroids hold values whose sums      *)
(* round: 1 beside 2^MantBits, and 1, 2, 4796 whose sum is 4799 or 4798    *)
(* according to the order (a mean on either side of 1600).                 *)
(***************************************************************************)
AggRecords ==
    [median_f0 : {Hz(120), Hz(280)},
     spectral_centroid : {1, 2, 4796, 2 ^ MantBits},
     spectral_rolloff : {3000}, zcr : {150}]

InitAgg ==
    /\ pc = "aggregate"
    /\ vocals_wav = TRUE /\ temp_wav = TRUE /\ temp_dir = FALSE
    /\ isolation = "ok" /\ convert_calls = 0 /\ conversion = "none"
    /\ wav_path = "vocals_wav"
    /\ Fs = 1 /\ x = <<1>> /\ max_amp = 1
    /\ chunks = <<>> /\ analysis = <<>>
    /\ chunk_results \in SeqsUpTo(AggRecords, MaxResults) \ {<<>>}
    /\ agg = NoFeatures /\ gender_score = 0
    /\ stdout = <<>> /\ stderr = <<>> /\ exit_code = -1 /\ exc = "none"

NextAgg == Aggregate \/ ScoreFeatures \/ PrintLabel

SpecAgg == InitAgg /\ [][NextAgg]_vars

(***************************************************************************)
(* Properties.                                                             *)
(***************************************************************************)
\* the run has failed: an exception is on its way to, or in, the handler
Failed == pc \in {"unwind", "except", "exited"}

\* the run is past the input checks and the normalisation
Normalized == pc \in {"chunk", "analyze", "aggregate", "score", "print", "leave", "done"}

\* the run has reached aggregation
Aggregating == pc \in {"aggregate", "score", "print", "leave", "done"}

\* wavfile.read has returned a waveform
Loaded == Fs > 0

\* every sample of w is within 1e-6 of zero
NearZero(w) == \A i \in 1..Len(w) : Abs(w[i]) * 1000000 < 1

Released == ~vocals_wav /\ ~temp_wav /\ ~temp_dir

\* C1: every run of detect_gender ends, and ends in exactly one of two ways:
\* it has written exactly one line, male or female, to standard output and
\* leaves with exit code 0 and no error line; or it has written the line
\* `error: <message>` to the diagnostic stream, exits with code 1 and has
\* written nothing to standard output.  No raised condition ends otherwise.
C1_OneOfTwoOutcomes ==
    /\ pc \in {"done", "exited"} \/ ENABLED Next
    /\ (exit_code # -1) <=> (pc \in {"done", "exited"})
    /\ pc = "done" =>
         /\ stdout \in {<<"male">>, <<"female">>}
         /\ stderr = <<>> /\ exit_code = 0 /\ exc = "none"
    /\ pc = "exited" =>
         /\ exc # "none" /\ stderr = <<ErrorLine(exc)>>
         /\ exit_code = 1 /\ stdout = <<>>
    /\ exc # "none" => Failed /\ stdout = <<>>
    /\ Failed => exc # "none"

\* a run whose WAV file could not be read has ended in the failure outcome
C1_Witness ==
    /\ pc = "exited" /\ exc = "wav read failed"
    /\ stderr = <<ErrorLine("wav read failed")>> /\ exit_code = 1

\* the messages of a failed fallback conversion
PreprocessingErrors == {"FFmpeg conversion failed", "ffmpeg not found"}

\* C2: preprocessing fails only if both the isolation and the fallback
\* conversion fail.  When isolation succeeds the conversion is never invoked
\* and the vocals file is the one loaded; when isolation fails, for whatever
\* reason, the conversion is invoked exactly once and, if it succeeds, its
\* output is the file loaded.
C2_FallbackOnlyAfterIsolationFails ==
    /\ exc \in PreprocessingErrors =>
         isolation = "failed" /\ conversion \in {"ffmpeg_failed", "not_found"}
    /\ isolation = "ok" =>
         /\ convert_calls = 0 /\ conversion = "none"
         /\ wav_path = "vocals_wav" /\ exc \notin PreprocessingErrors
    /\ (isolation = "failed" /\ pc # "convert") =>
         /\ convert_calls = 1
         /\ conversion = "ok" =>
              wav_path = "temp_wav" /\ exc \notin PreprocessingErrors
         /\ conversion # "ok" => Failed /\ exc \in PreprocessingErrors
    /\ (isolation = "failed" /\ pc = "convert") => convert_calls = 0
    /\ (Loaded \/ pc = "load") => wav_path \in {"vocals_wav", "temp_wav"}

\* isolation failed, the conversion succeeded and its output has been loaded
C2_Witness ==
    /\ pc = "check_empty" /\ isolation = "failed" /\ conversion = "ok"
    /\ convert_calls = 1 /\ wav_path = "temp_wav"

\* C3 (as amended): for any non-empty waveform whose samples are all within
\* 1e-6 of zero, the pipeline fails with "Audio file contains only silence"
\* and never reaches chunking, aggregation or scoring.
C3_SilenceFails ==
    (Loaded /\ x # <<>> /\ NearZero(x)) =>
        /\ pc \in {"check_empty", "check_silence"} \/ Failed
        /\ Failed => exc = "Audio file contains only silence"
        /\ pc = "exited" =>
             stderr = <<ErrorLine("Audio file contains only silence")>>
        /\ chunks = <<>> /\ analysis = <<>> /\ chunk_results = <<>>
        /\ stdout = <<>>

\* a silent waveform of two samples or more has ended the run
C3_Witness ==
    /\ pc = "exited" /\ Len(x) >= 2 /\ NearZero(x)
    /\ exc = "Audio file contains only silence"

\* C3 as stated: for any waveform whose samples are all within 1e-6 of zero
\* (the waveform of no sample included), the pipeline fails with "Audio file
\* contains only silence" and never reaches chunking, aggregation or scoring.
C3_AsStated ==
    (Loaded /\ NearZero(x)) =>
        /\ pc \in {"check_empty", "check_silence"} \/ Failed
        /\ Failed => exc = "Audio file contains only silence"
        /\ chunks = <<>> /\ analysis = <<>> /\ chunk_results = <<>>
        /\ stdout = <<>>

Unusable(i) ==
    \/ AllSilent(chunks[i], max_amp)
    \/ analysis[i].raised
    \/ analysis[i].frames = 0
    \/ analysis[i].voiced = 0

\* C5: a window that cannot be analysed is left out of the aggregation and
\* never aborts the run: every later window is still analysed, and the run
\* reaches aggregation exactly when some window yielded a record.  When
\* every window is left out the run fails with the diagnostic
\* `error: Could not analyze any audio chunks` and exit code 1.
C5_UnusableChunksAreSkipped ==
    /\ Len(analysis) <= Len(chunks)
    /\ Len(chunk_results) =
         Cardinality({i \in 1..Len(analysis) : ~Unusable(i)})
    /\ (chunks # <<>> /\ Failed) =>
         /\ Len(analysis) = Len(chunks)
         /\ chunk_results = <<>>
         /\ exc = "Could not analyze any audio chunks"
    /\ Aggregating => Len(analysis) = Len(chunks) /\ chunk_results # <<>>
    /\ (chunks # <<>> /\ pc = "exited") =>
         /\ stderr = <<ErrorLine("Could not analyze any audio chunks")>>
         /\ exit_code = 1

\* the extractor raised on the first window, the second was analysed all
\* the same and the run has reached aggregation
C5_Witness ==
    /\ pc = "aggregate" /\ Len(chunks) >= 2
    /\ analysis[1].raised /\ analysis[2].why = "ok"
    /\ Len(chunk_results) = 1

\* C6: the score is the sum of exactly one F0 term (+2.0 in [85,155],
\* +1.0 in (155,170], -1.0 in (170,255], else 0), +0.5 if the centroid is
\* below 1600 and +0.5 if the zero-crossing rate is below 0.1; the label is
\* male exactly when the score is above 0.  (120, 1000, 0.05) scores 3.0
\* male, (200, 2000, 0.15) scores -1.0 female, (160, 1500, 0.2) 1.5 male.
C6_ScoreTable ==
    LET f == agg.median_f0
        bands == <<Hz(85) <= f /\ f <= Hz(155),
                   Hz(155) < f /\ f <= Hz(170),
                   Hz(170) < f /\ f <= Hz(255),
                   f < Hz(85) \/ f > Hz(255)>>
        f0_term == CASE bands[1] -> 4 [] bands[2] -> 2 [] bands[3] -> -2
                     [] OTHER -> 0
        centroid_term == IF agg.spectral_centroid < 1600 THEN 1 ELSE 0
        zcr_term == IF agg.zcr < 100 THEN 1 ELSE 0
        scenario(h, c, z) ==
            agg.median_f0 = Hz(h) /\ agg.spectral_centroid = c /\ agg.zcr = z
    IN  /\ Cardinality({k \in 1..4 : bands[k]}) = 1
        /\ pc \in {"print", "leave"} =>
             /\ gender_score = f0_term + centroid_term + zcr_term
             /\ scenario(120, 1000, 50) => gender_score = 6
             /\ scenario(200, 2000, 150) => gender_score = -2
             /\ scenario(160, 1500, 200) => gender_score = 3
        /\ pc = "leave" =>
             /\ stdout = <<"male">> <=> gender_score > 0
             /\ stdout = <<"female">> <=> gender_score <= 0

\* a score of exactly 0 has been labelled female
C6_Witness == pc = "leave" /\ gender_score = 0 /\ stdout = <<"female">>

C8_ScratchReleased ==
    /\ pc \in {"done", "except", "exited"} => Released
    /\ (exit_code # -1 \/ stderr # <<>>) => Released
    /\ temp_dir => pc = "demucs"

\* both the isolation and the conversion failed and the run has exited
C8_Witness ==
    /\ pc = "exited" /\ isolation = "failed" /\ conversion = "ffmpeg_failed"
    /\ Released

\* C8 as stated: all scratch resources have been released before the run
\* reports its result or exits with code 1.
C8_AsStated ==
    (stdout # <<>> \/ stderr # <<>> \/ exit_code = 1) => Released

\* C9: the secondary features never overturn an F0 band: the label is male
\* whenever the median F0 lies in [85,170], female whenever it lies in
\* (170,255], and otherwise male exactly when the centroid is below 1600 or
\* the zero-crossing rate below 0.1.
C9_BandsDecide ==
    pc = "leave" =>
        LET f == agg.median_f0 IN
        /\ (Hz(85) <= f /\ f <= Hz(170)) => stdout = <<"male">>
        /\ (Hz(170) < f /\ f <= Hz(255)) => stdout = <<"female">>
        /\ (f < Hz(85) \/ f > Hz(255)) =>
             (stdout = <<"male">>
                <=> (agg.spectral_centroid < 1600 \/ agg.zcr < 100))
        /\ stdout \in {<<"male">>, <<"female">>}

\* outside the bands one secondary feature alone has made the label male
C9_Witness ==
    /\ pc = "leave" /\ agg.median_f0 = Hz(300)
    /\ agg.spectral_centroid >= 1600 /\ agg.zcr < 100
    /\ stdout = <<"male">>

\* C10: the input checks come in the order empty, silence, zero amplitude,
\* so the zero-amplitude error is never raised: a waveform that passes the
\* first two has a peak above 0 and is normalised by it, and a waveform of
\* no sample is reported as empty, not as silent.
C10_ZeroAmplitudeUnreachable ==
    /\ exc # "Audio file has zero amplitude"
    /\ pc = "check_silence" => x # <<>>
    /\ pc = "normalize" => x # <<>> /\ MaxAbs(x) > 0
    /\ Normalized => max_amp > 0 /\ max_amp = MaxAbs(x)
    /\ (Loaded /\ x = <<>>) =>
         /\ pc = "check_empty" \/ Failed
         /\ Failed => exc = "Audio file is empty"
    /\ exc = "Audio file contains only silence" => x # <<>>

\* a waveform of no sample has ended the run as empty
C10_Witness ==
    /\ pc = "exited" /\ Loaded /\ x = <<>>
    /\ stderr = <<ErrorLine("Audio file is empty")>>

====
